---- MODULE Spec2Model ----
(***************************************************************************)
(* A model of example_scenarios/asr_rir_defense.py: the multipath channel  *)
(* filter (load_audio_channel), the room-impulse-response convolution      *)
(* (create_speech_rir, Readrir) and the scenario driver                    *)
(* (AutomaticSpeechRecognition._evaluate).                                 *)
(*                                                                         *)
(* Floating-point samples are modelled as exact rationals [n, d] in lowest *)
(* terms with d > 0; the IEEE special values are [n |-> 0, d |-> 0] (NaN)  *)
(* and [n |-> +-1, d |-> 0] (+-inf).  Rounding error of float64 is not     *)
(* modelled.                                                               *)
(***************************************************************************)
EXTENDS Integers, Sequences, FiniteSets, TLC

VARIABLES
    \* a call of load_audio_channel and the use of its filter
    chPc, chIn, chOut, chY,
    \* a call of create_speech_rir: its arguments, loop index i, the list
    \* speech_rir it builds and the array speech_rirs it returns
    rirPc, rirIn, rirI, speech_rir, speech_rirs,
    \* a run of AutomaticSpeechRecognition._evaluate:
    \* its position and the exception it raised
    pc, raised,
    \* its arguments
    num_eval_batches, skip_benign, skip_attack, skip_misclassified,
    \* config["dataset"]["batch_size"], and config["adhoc"] as far as read: its
    \* kind, its audio_channel entry with the keys it has, skip_adversarial
    batch_size, adhoc,
    \* its locals
    estimator, audio_channel, defense_type, fit_kwargs, attack_type, targeted,
    rir, attack, use_label, sample_exporter, y_target,
    \* the index of the batch the running loop is at
    batch,
    \* the collaborators: every call made, in order; the metrics logger's
    \* accumulators; the value returned
    calls, metrics_logger, results

chVars == <<chPc, chIn, chOut, chY>>

rirVars == <<rirPc, rirIn, rirI, speech_rir, speech_rirs>>

argVars == <<num_eval_batches, skip_benign, skip_attack, skip_misclassified>>

localVars == <<estimator, audio_channel, defense_type, fit_kwargs, attack_type,
               targeted, rir, attack, use_label, sample_exporter, y_target>>

evVars == <<pc, raised, argVars, batch_size, adhoc, localVars, batch, calls,
            metrics_logger, results>>

vars == <<chVars, rirVars, evVars>>

----------------------------------------------------------------------------
(* Bounds of the model.                                                    *)

\* longest waveform, in samples
MaxLen == 3
\* largest delay of the channel, in samples
MaxDelay == 3
\* most samples in one batch handed to create_speech_rir, all waveforms together
MaxBatchSamples == 3
\* longest room impulse response, in samples
MaxRirLen == 2
\* most batches a dataset yields (num_eval_batches)
MaxBatches == 2

----------------------------------------------------------------------------
(* float64 arithmetic, as exact rationals with NaN and +-inf.              *)

Abs(i) == IF i < 0 THEN -i ELSE i

Sign(i) == IF i < 0 THEN -1 ELSE IF i > 0 THEN 1 ELSE 0

RECURSIVE GCD(_, _)
GCD(a, b) == IF b = 0 THEN a ELSE GCD(b, a % b)

\* the float n/d; d = 0 gives NaN (n = 0) or an infinity
Rat(n, d) ==
    IF d = 0 THEN [n |-> Sign(n), d |-> 0]
    ELSE LET g == GCD(Abs(n), Abs(d))
         IN  [n |-> Sign(d) * (n \div g), d |-> Abs(d) \div g]

\* float(i) of an integer i
ToRat(i) == [n |-> i, d |-> 1]

NaN == [n |-> 0, d |-> 0]

IsNaN(p) == p.n = 0 /\ p.d = 0

IsFinite(p) == p.d > 0

RAdd(p, q) ==
    IF IsNaN(p) \/ IsNaN(q) THEN NaN
    ELSE IF p.d = 0 /\ q.d = 0 THEN (IF p.n = q.n THEN p ELSE NaN)
    ELSE IF p.d = 0 THEN p
    ELSE IF q.d = 0 THEN q
    ELSE Rat(p.n * q.d + q.n * p.d, p.d * q.d)

RMul(p, q) ==
    IF IsNaN(p) \/ IsNaN(q) THEN NaN
    ELSE Rat(p.n * q.n, p.d * q.d)

RNeg(p) == [n |-> -(p.n), d |-> p.d]

RSub(p, q) == RAdd(p, RNeg(q))

\* IEEE division: 0/0 is NaN, x/0 an infinity, no exception
RDiv(p, q) ==
    IF IsNaN(p) \/ IsNaN(q) THEN NaN
    ELSE IF p.d = 0 /\ q.d = 0 THEN NaN
    ELSE Rat(p.n * q.d, p.d * q.n)

RAbs(p) == [n |-> Abs(p.n), d |-> p.d]

\* p < q; any comparison with NaN is false
RLt(p, q) ==
    /\ ~IsNaN(p)
    /\ ~IsNaN(q)
    /\ IF p.d = 0 /\ q.d = 0 THEN p.n < q.n
       ELSE IF p.d = 0 THEN p.n < 0
       ELSE IF q.d = 0 THEN q.n > 0
       ELSE p.n * q.d < q.n * p.d

\* p <= q; any comparison with NaN is false
RLe(p, q) == ~IsNaN(p) /\ ~IsNaN(q) /\ (p = q \/ RLt(p, q))

\* int(p): truncation toward zero
IntTrunc(p) == IF p.n >= 0 THEN p.n \div p.d ELSE -((-(p.n)) \div p.d)

\* np.zeros(n)
Zeros(n) == [i \in 1..n |-> ToRat(0)]

----------------------------------------------------------------------------
(* load_audio_channel                                                      *)

LogEntry(level, msg) == [level |-> level, msg |-> msg]

\* the test that selects the identity channel
IsIdentityChannel_Both(delay, attenuation) == delay = 0 /\ attenuation = ToRat(0)

IsIdentityChannel(delay, attenuation) == delay = 0 \/ attenuation = ToRat(0)

\* the echo tap written one element early
MultipathNumerator_TapEarly(delay, attenuation) ==
    LET z  == Zeros(delay + 1)
        z0 == [z EXCEPT ![1] = ToRat(1)]
    IN  [z0 EXCEPT ![delay] = attenuation]

\* numerator_coef of the non-identity branch (0-based tap k is element k+1)
MultipathNumerator(delay, attenuation) ==
    LET z  == Zeros(delay + 1)
        z0 == [z EXCEPT ![1] = ToRat(1)]
    IN  [z0 EXCEPT ![delay + 1] = attenuation]

\* a denominator of ones (np.ones_like): a feedback filter
MultipathDenominator_Ones(numerator_coef) ==
    [i \in 1..Len(numerator_coef) |-> ToRat(1)]

\* denominator_coef of the non-identity branch
MultipathDenominator(numerator_coef) ==
    [Zeros(Len(numerator_coef)) EXCEPT ![1] = ToRat(1)]

\* The filter object load_audio_channel returns, or the error it raises,
\* with the log records it emits.  torchOK: LFilterPyTorch can be built
\* (it raises ImportError otherwise).
load_audio_channel(delayArg, attenuationArg, pytorch, torchOK) ==
    LET delay       == IntTrunc(delayArg)
        attenuation == attenuationArg
        identity    == IsIdentityChannel(delay, attenuation)
        numerator_coef ==
            IF identity THEN <<ToRat(1)>>
            ELSE MultipathNumerator(delay, attenuation)
        denominator_coef ==
            IF identity THEN <<ToRat(1)>>
            ELSE MultipathDenominator(numerator_coef)
        log1 ==
            IF identity
            THEN <<LogEntry("WARNING", "Using an identity channel")>>
            ELSE IF ~(RLe(ToRat(-1), attenuation) /\ RLe(attenuation, ToRat(1)))
                 THEN <<LogEntry("WARNING", "filter attenuation not in [-1, 1]")>>
                 ELSE <<>>
        log2 ==
            IF pytorch /\ ~torchOK
            THEN <<LogEntry("ERROR", "PyTorch not available. Resorting to scipy filter")>>
            ELSE <<>>
        log3 == <<LogEntry("WARNING",
                    "Scipy LFilter does not currently implement proper gradients")>>
    IN  IF delay < 0
        THEN [error |-> "ValueError", kind |-> "none", log |-> <<>>,
              numerator_coef |-> <<>>, denominator_coef |-> <<>>]
        ELSE IF pytorch /\ torchOK
        THEN [error |-> "none", kind |-> "LFilterPyTorch", log |-> log1,
              numerator_coef |-> numerator_coef,
              denominator_coef |-> denominator_coef]
        ELSE [error |-> "none", kind |-> "LFilter", log |-> log1 \o log2 \o log3,
              numerator_coef |-> numerator_coef,
              denominator_coef |-> denominator_coef]

\* sum over k = lo..hi of f[k], f a function to rationals
RECURSIVE RSum(_, _, _)
RSum(f, lo, hi) == IF lo > hi THEN ToRat(0) ELSE RAdd(f[lo], RSum(f, lo + 1, hi))

\* The first n output samples of the direct-form filter
\*   a[0]*y[i] = sum_k b[k]*x[i-k] - sum_{k>=1} a[k]*y[i-k]
\* that LFilter / LFilterPyTorch apply (indices 0-based in this comment).
RECURSIVE lfilterPrefix(_, _, _, _)
lfilterPrefix(b, a, x, n) ==
    IF n = 0 THEN <<>>
    ELSE LET y   == lfilterPrefix(b, a, x, n - 1)
             kb  == IF n < Len(b) THEN n ELSE Len(b)
             ka  == IF n < Len(a) THEN n ELSE Len(a)
             ff  == RSum([k \in 1..kb |-> RMul(b[k], x[n - k + 1])], 1, kb)
             fb  == RSum([k \in 2..ka |-> RMul(a[k], y[n - k + 1])], 2, ka)
         IN  Append(y, RDiv(RSub(ff, fb), a[1]))

\* The filter applied to one waveform: as many output samples as input
lfilter(b, a, x) == lfilterPrefix(b, a, x, Len(x))

----------------------------------------------------------------------------
(* create_speech_rir                                                       *)

\* 2 ** (16 - 1) - 1
Int16Max == 32767
\* -(2 ** (16 - 1))
Int16Min == -32768
\* trailing zeros np.pad appends
PadLen == 100000

\* the convolution length taken as the audio length alone
ConvShape_AudioOnly(s1, s2) == s1

\* shape = s1 + s2 - 1
ConvShape(s1, s2) == s1 + s2 - 1

\* the first n samples of a, zero-padded: the input rfft(a, n=n) transforms
FitTo(a, n) == [i \in 1..n |-> IF i <= Len(a) THEN a[i] ELSE ToRat(0)]

\* irfft(rfft(a, n) * rfft(b, n), n): the circular convolution, of period
\* n, of a and b fitted to n samples
FFTConvolve(a, b, n) ==
    LET A == FitTo(a, n)
        B == FitTo(b, n)
    IN  [k \in 1..n |->
            RSum([i \in 1..n |-> RMul(A[i], B[((k - i) % n) + 1])], 1, n)]

\* np.amax(np.absolute(ret)), ret not empty
RECURSIVE AMaxAbs(_, _)
AMaxAbs(ret, n) ==
    IF n = 1 THEN RAbs(ret[1])
    ELSE LET m == AMaxAbs(ret, n - 1)
             v == RAbs(ret[n])
         IN  IF RLt(m, v) THEN v ELSE m

\* the normalization without the scaling to int16 full scale
Normalize_NoScale(ret) ==
    LET peak == AMaxAbs(ret, Len(ret))
    IN  [i \in 1..Len(ret) |-> RDiv(ret[i], peak)]

\* ret /= np.amax(np.absolute(ret)); ret *= 2 ** (16 - 1) - 1
Normalize(ret) ==
    LET peak == AMaxAbs(ret, Len(ret))
    IN  [i \in 1..Len(ret) |-> RMul(RDiv(ret[i], peak), ToRat(Int16Max))]

\* np.clip(ret, a_min, a_max); NaN stays NaN
Clip(ret, a_min, a_max) ==
    [i \in 1..Len(ret) |->
        IF IsNaN(ret[i]) THEN ret[i]
        ELSE IF RLt(ret[i], a_min) THEN a_min
        ELSE IF RLt(a_max, ret[i]) THEN a_max
        ELSE ret[i]]

\* the padded signal returned whole
PadAndTruncate_NoSlice(ret, s1) ==
    [i \in 1..Len(ret) |-> ret[i]]

\* np.pad(ret, (0, 100000))[:s1]
PadAndTruncate(ret, s1) ==
    LET padded == Len(ret) + PadLen
        n      == IF s1 < padded THEN s1 ELSE padded
    IN  [i \in 1..n |-> IF i <= Len(ret) THEN ret[i] ELSE ToRat(0)]

\* one iteration of the loop: the waveform audio convolved with the
\* impulse response ir (the argument rir)
SpeechRirOf(audio, ir) ==
    LET s1    == Len(audio)
        s2    == Len(ir)
        shape == ConvShape(s1, s2)
        ret0  == FFTConvolve(ir, audio, shape)
        ret1  == Normalize(ret0)
        ret2  == Clip(ret1, ToRat(Int16Min), ToRat(Int16Max))
    IN  PadAndTruncate(ret2, s1)

----------------------------------------------------------------------------
(* Inputs of the channel specification.                                    *)

\* delays as given in the configuration: halves from -1 to MaxDelay
DelayArgs == {Rat(h, 2) : h \in -2..(2 * MaxDelay)}

AttenuationArgs == {Rat(-2, 1), Rat(-1, 2), Rat(0, 1), Rat(1, 2), Rat(1, 1), Rat(2, 1)}

Samples == {ToRat(-1), ToRat(0), ToRat(1)}

SeqsUpTo(S, n) == UNION {[1..k -> S] : k \in 0..n}

Waveforms == SeqsUpTo(Samples, MaxLen)

NoFilter == [error |-> "none", kind |-> "none", log |-> <<>>,
             numerator_coef |-> <<>>, denominator_coef |-> <<>>]

\* a collaborator call: its name, a tag telling its variant, the index i of
\* the batch it is made for (0: none) and a value v it is given (a batch
\* size, a file index, a target label; 0: none)
Call(op, tag, i, v) == [op |-> op, tag |-> tag, i |-> i, v |-> v]

\* the estimator before load_model has returned one
NoEstimator == [preprocessing_defences |-> <<>>, preprocessing_operations |-> <<>>,
                wrappers |-> <<>>]

\* MetricsLogger.from_config: nothing accumulated
EmptyMetrics == [benign |-> <<>>, adversarial |-> <<>>, targeted |-> <<>>,
                 perturbation |-> <<>>, logged |-> <<>>]

EvLocalsUnset ==
    /\ estimator = NoEstimator
    /\ audio_channel = NoFilter
    /\ defense_type = "unset"
    /\ fit_kwargs = [fit |-> FALSE, fit_batch_size |-> 0]
    /\ attack_type = "unset"
    /\ targeted = FALSE
    /\ rir = 0
    /\ attack = "unbound"
    /\ use_label = FALSE
    /\ sample_exporter = "unbound"
    /\ y_target = 0
    /\ adhoc = [kind |-> "unread", audio_channel |-> "unread", keys |-> {},
                skip_adversarial |-> "unread"]
    /\ batch = 0
    /\ calls = <<>>
    /\ metrics_logger = EmptyMetrics
    /\ results = EmptyMetrics
    /\ raised = "none"

\* no run of _evaluate is being followed
EvIdle ==
    /\ pc = "idle"
    /\ num_eval_batches = 0
    /\ skip_benign = FALSE
    /\ skip_attack = FALSE
    /\ skip_misclassified = FALSE
    /\ batch_size = 1
    /\ EvLocalsUnset

\* no call of load_audio_channel is being followed
ChIdle ==
    /\ chPc = "idle"
    /\ chIn = [delay |-> ToRat(0), attenuation |-> ToRat(0),
               pytorch |-> FALSE, torchOK |-> FALSE, x |-> <<>>]
    /\ chOut = NoFilter
    /\ chY = <<>>

\* no call of create_speech_rir is being followed
RirIdle ==
    /\ rirPc = "idle"
    /\ rirIn = [audios |-> <<>>, rir |-> <<>>]
    /\ rirI = 0
    /\ speech_rir = <<>>
    /\ speech_rirs = <<>>

ChInit ==
    /\ RirIdle
    /\ EvIdle
    /\ chPc = "call"
    /\ chIn \in [delay : DelayArgs, attenuation : AttenuationArgs,
                 pytorch : BOOLEAN, torchOK : BOOLEAN, x : Waveforms]
    /\ chOut = NoFilter
    /\ chY = <<>>

\* a call of load_audio_channel(delay, attenuation, pytorch)
LoadAudioChannel ==
    /\ chPc = "call"
    /\ chOut' = load_audio_channel(chIn.delay, chIn.attenuation,
                                   chIn.pytorch, chIn.torchOK)
    /\ chPc' = IF chOut'.error = "none" THEN "built" ELSE "raised"
    /\ UNCHANGED <<chIn, chY>>
    /\ UNCHANGED <<rirVars, evVars>>

\* the returned filter applied to the waveform x
ApplyFilter ==
    /\ chPc = "built"
    /\ chY' = lfilter(chOut.numerator_coef, chOut.denominator_coef, chIn.x)
    /\ chPc' = "applied"
    /\ UNCHANGED <<chIn, chOut>>
    /\ UNCHANGED <<rirVars, evVars>>

ChNext == LoadAudioChannel \/ ApplyFilter

SpecChannel == ChInit /\ [][ChNext]_vars

----------------------------------------------------------------------------
(* Properties of load_audio_channel.                                       *)

ChReturned == chPc \in {"built", "applied"}

ChCalled == chPc # "call"

\* the delay argument is a whole number of samples
ChIntegerDelay == chIn.delay.d = 1

HasLog(log, level, msg) == \E i \in 1..Len(log) : log[i] = LogEntry(level, msg)

\* C5: for a non-negative delay, if delay == 0 or attenuation == 0 the call
\* raises nothing and builds the identity filter, numerator exactly [1.0]
\* and denominator exactly [1.0]; the identity channel is logged at warning
\* level and not at error level; applying the filter returns the waveform
\* unchanged.
C5_IdentityChannel ==
    (/\ ChCalled
     /\ RLe(ToRat(0), chIn.delay)
     /\ (chIn.delay = ToRat(0) \/ chIn.attenuation = ToRat(0)))
    => /\ ChReturned
       /\ chOut.error = "none"
       /\ chOut.numerator_coef = <<ToRat(1)>>
       /\ chOut.denominator_coef = <<ToRat(1)>>
       /\ HasLog(chOut.log, "WARNING", "Using an identity channel")
       /\ ~HasLog(chOut.log, "ERROR", "Using an identity channel")
       /\ (chPc = "applied" => chY = chIn.x)

\* C5 witness: a positive delay with attenuation 0 was built as the identity
\* and applied to a waveform of full length.
C5_Witness ==
    /\ chPc = "applied"
    /\ chIn.delay = ToRat(2)
    /\ chIn.attenuation = ToRat(0)
    /\ Len(chIn.x) = MaxLen
    /\ chOut.numerator_coef = <<ToRat(1)>>

\* C6: for a whole delay d > 0 and an attenuation a # 0 (also outside
\* [-1, 1]) the call raises nothing; the numerator has length d+1, taps
\* numerator[0] = 1.0 and numerator[d] = a and zeros elsewhere; the
\* denominator has the same length and is [1, 0, ..., 0].
C6_MultipathCoefficients ==
    (/\ ChCalled
     /\ ChIntegerDelay
     /\ chIn.delay.n > 0
     /\ chIn.attenuation # ToRat(0))
    => LET d == chIn.delay.n
           b == chOut.numerator_coef
           a == chOut.denominator_coef
       IN  /\ ChReturned
           /\ Len(b) = d + 1
           /\ b[1] = ToRat(1)
           /\ b[d + 1] = chIn.attenuation
           /\ \A i \in 1..Len(b) : i \notin {1, d + 1} => b[i] = ToRat(0)
           /\ Len(a) = d + 1
           /\ a[1] = ToRat(1)
           /\ \A i \in 2..Len(a) : a[i] = ToRat(0)

\* C6 witness: delay 2 with attenuation 2, outside [-1, 1], built with a
\* warning only.
C6_Witness ==
    /\ chPc = "built"
    /\ chIn.delay = ToRat(2)
    /\ chIn.attenuation = ToRat(2)
    /\ HasLog(chOut.log, "WARNING", "filter attenuation not in [-1, 1]")
    /\ Len(chOut.numerator_coef) = 3

\* C7: the filter built for a whole delay d > 0 and attenuation a, applied
\* to a waveform x of n samples, gives n samples with y[i] = x[i] for i < d
\* and y[i] = x[i] + a*x[i-d] for i >= d (0-based); x = [1,1,1], d = 2,
\* a = 0.5 gives [1, 1, 1.5].
C7_MultipathOutput ==
    (/\ chPc = "applied"
     /\ ChIntegerDelay
     /\ chIn.delay.n > 0)
    => LET d == chIn.delay.n
           a == chIn.attenuation
           x == chIn.x
       IN  /\ Len(chY) = Len(x)
           /\ \A i \in 1..Len(x) :
                 chY[i] = IF i <= d THEN x[i]
                          ELSE RAdd(x[i], RMul(a, x[i - d]))
           /\ (x = <<ToRat(1), ToRat(1), ToRat(1)>> /\ d = 2 /\ a = Rat(1, 2)
                 => chY = <<ToRat(1), ToRat(1), Rat(3, 2)>>)

\* C7 witness: the end-to-end example has been run.
C7_Witness ==
    /\ chPc = "applied"
    /\ chIn.x = <<ToRat(1), ToRat(1), ToRat(1)>>
    /\ chIn.delay = ToRat(2)
    /\ chIn.attenuation = Rat(1, 2)
    /\ chY = <<ToRat(1), ToRat(1), Rat(3, 2)>>

----------------------------------------------------------------------------
(* Inputs and steps of a call of create_speech_rir.                        *)

\* sample values of the audio waveforms
RirSamples == {ToRat(-1), ToRat(0), ToRat(2)}

\* sample values of the room impulse response
RirTaps == {ToRat(-2), ToRat(0), ToRat(1)}

WaveformsOfLen(S, k) == [1..k -> S]

\* the batches of non-empty waveforms with at most n samples in all
RECURSIVE BatchesUpTo(_, _)
BatchesUpTo(S, n) ==
    {<<>>} \cup
    UNION {{<<w>> \o b : w \in WaveformsOfLen(S, k), b \in BatchesUpTo(S, n - k)} :
           k \in 1..n}

Rirs == UNION {WaveformsOfLen(RirTaps, k) : k \in 1..MaxRirLen}

RirInit ==
    /\ ChIdle
    /\ EvIdle
    /\ rirPc = "loop"
    /\ rirIn \in [audios : BatchesUpTo(RirSamples, MaxBatchSamples), rir : Rirs]
    /\ rirI = 0
    /\ speech_rir = <<>>
    /\ speech_rirs = <<>>

\* batch_size = audios.shape[0]
BatchSize == Len(rirIn.audios)

\* one pass through the body of `for i in range(batch_size)`
RirLoopBody ==
    /\ rirPc = "loop"
    /\ rirI < BatchSize
    /\ speech_rir' = Append(speech_rir, SpeechRirOf(rirIn.audios[rirI + 1], rirIn.rir))
    /\ rirI' = rirI + 1
    /\ UNCHANGED <<rirPc, rirIn, speech_rirs>>
    /\ UNCHANGED <<chVars, evVars>>

\* speech_rirs = np.array(speech_rir); return speech_rirs
RirReturn ==
    /\ rirPc = "loop"
    /\ rirI = BatchSize
    /\ speech_rirs' = speech_rir
    /\ rirPc' = "returned"
    /\ UNCHANGED <<rirIn, rirI, speech_rir>>
    /\ UNCHANGED <<chVars, evVars>>

RirNext == RirLoopBody \/ RirReturn

SpecRir == RirInit /\ [][RirNext]_vars

----------------------------------------------------------------------------
(* Properties of create_speech_rir.                                        *)

\* the linear convolution of an audio with the RIR is zero everywhere
ZeroConvolution(audio, ir) ==
    LET ret == FFTConvolve(ir, audio, ConvShape(Len(audio), Len(ir)))
    IN  \A k \in 1..Len(ret) : ret[k] = ToRat(0)

InInt16Range(v) == IsFinite(v) /\ RLe(ToRat(Int16Min), v) /\ RLe(v, ToRat(Int16Max))

\* C8: for every batch and every RIR of s2 >= 1 samples, the call returns
\* one waveform per input waveform, the i-th made from the i-th input, and
\* each has exactly the s1 >= 1 samples of its input, whatever s2.
C8_LengthPreserved ==
    /\ rirPc = "loop" => Len(speech_rir) = rirI
    /\ rirPc = "returned" =>
          /\ Len(speech_rirs) = Len(rirIn.audios)
          /\ \A i \in 1..Len(rirIn.audios) :
                /\ Len(speech_rirs[i]) = Len(rirIn.audios[i])
                /\ speech_rirs[i] = SpeechRirOf(rirIn.audios[i], rirIn.rir)

\* C8 witness: a batch of two waveforms of different lengths and a RIR of
\* two samples has been processed.
C8_Witness ==
    /\ rirPc = "returned"
    /\ Len(rirIn.audios) = 2
    /\ Len(rirIn.audios[1]) # Len(rirIn.audios[2])
    /\ Len(rirIn.rir) = 2
    /\ Len(speech_rirs[2]) = Len(rirIn.audios[2])

\* C9: when the convolution of a waveform with the RIR is all zeros, the
\* returned waveform is defined: every sample is a finite number within the
\* int16 range (no NaN from a division by zero).
C9_ZeroEnergyGuarded ==
    rirPc = "returned" =>
        \A i \in 1..Len(rirIn.audios) :
            ZeroConvolution(rirIn.audios[i], rirIn.rir) =>
                \A k \in 1..Len(speech_rirs[i]) : InInt16Range(speech_rirs[i][k])

NonSilent(audio) == \E k \in 1..Len(audio) : audio[k] # ToRat(0)

UnitRir == <<ToRat(1)>>

\* C10 as stated: with the single-sample RIR [1.0], every non-silent
\* waveform is returned equal to the input, sample for sample.
C10_IdentityRirReturnsInput ==
    (rirPc = "returned" /\ rirIn.rir = UnitRir) =>
        \A i \in 1..Len(rirIn.audios) :
            NonSilent(rirIn.audios[i]) => speech_rirs[i] = rirIn.audios[i]

\* C10 amended: with the single-sample RIR [1.0], every non-silent waveform
\* x is returned rescaled to int16 full scale: sample k of the output is
\* x[k] * 32767 / max|x|, of the length of x.
C10_IdentityRirRescalesInput ==
    (rirPc = "returned" /\ rirIn.rir = UnitRir) =>
        \A i \in 1..Len(rirIn.audios) :
            LET x == rirIn.audios[i]
            IN  NonSilent(x) =>
                  /\ Len(speech_rirs[i]) = Len(x)
                  /\ \A k \in 1..Len(x) :
                        speech_rirs[i][k] =
                            RDiv(RMul(x[k], ToRat(Int16Max)), AMaxAbs(x, Len(x)))

\* C10 witness: the waveform [-1, 2] through the RIR [1.0] came back as
\* [-32767/2, 32767].
C10_Witness ==
    /\ rirPc = "returned"
    /\ rirIn.rir = UnitRir
    /\ rirIn.audios = << <<ToRat(-1), ToRat(2)>> >>
    /\ speech_rirs = << <<Rat(-32767, 2), ToRat(32767)>> >>

----------------------------------------------------------------------------
(* AutomaticSpeechRecognition._evaluate                                    *)
(*                                                                         *)
(* The arguments are drawn in EvInit.  A configuration key that the code   *)
(* reads once is drawn in the step that reads it; the collaborators'       *)
(* return values are drawn in the step that calls them.  Exceptions raised *)
(* inside the collaborators (load_model, load_dataset, predict, ...) are   *)
(* not modelled; those of the code itself and of its file accesses are.    *)

\* preprocessing_defences of the estimator load_model returns
InitialDefences == {<<>>, <<"d1">>, <<"d1", "d2">>}

BatchSizes == {1, 2}

\* config["adhoc"]: absent, null, or a dict; its audio_channel entry, the
\* keys that entry has and their values
AdhocConfigs ==
    {[kind |-> k, audio_channel |-> "absent", keys |-> {},
      delay |-> ToRat(0), attenuation |-> ToRat(0), torchOK |-> TRUE] :
        k \in {"absent", "null", "dict"}}
    \cup
    {[kind |-> "dict", audio_channel |-> "present", keys |-> ks,
      delay |-> ToRat(2), attenuation |-> Rat(1, 2), torchOK |-> TRUE] :
        ks \in {{}, {"delay"}, {"attenuation"}}}
    \cup
    {[kind |-> "dict", audio_channel |-> "present",
      keys |-> {"delay", "attenuation"},
      delay |-> d, attenuation |-> Rat(1, 2), torchOK |-> t] :
        d \in {ToRat(-1), ToRat(2)}, t \in BOOLEAN}

DefenseTypes == {"None", "Preprocessor", "Postprocessor", "Trainer", "Transform"}

\* model_config["fit"] and fit_kwargs.get("fit_batch_size") (0: no such key)
FitConfigs == {[fit |-> FALSE, fit_batch_size |-> 0],
               [fit |-> TRUE, fit_batch_size |-> 0],
               [fit |-> TRUE, fit_batch_size |-> 16]}

\* config["scenario"].get("export_samples"); -1 stands for None
ExportSamples == {-1, 0, 2}

\* raise exc
Raise(exc) ==
    /\ pc' = "raised"
    /\ raised' = exc

\* the room index taken as the file index past the training rooms
ReadrirIndex_NoPlusOne(num_room) == num_room + 1000

\* index = num_room + 1000 + 1: the file Readrir(num_room) reads
ReadrirIndex(num_room) == num_room + 1000 + 1

\* the fit block placed before the defense wrap
StepAfter_FitBeforeWrap(step) ==
    CASE step = "start"     -> "channel"
      [] step = "channel"   -> "fit"
      [] step = "fit"       -> "defense"
      [] step = "defense"   -> "transform"
      [] step = "transform" -> "setup"

\* lines 166-224: the block that follows each block of _evaluate, in the
\* order the statements are written
StepAfter(step) ==
    CASE step = "start"     -> "channel"
      [] step = "channel"   -> "defense"
      [] step = "defense"   -> "fit"
      [] step = "fit"       -> "transform"
      [] step = "transform" -> "setup"


EvInit ==
    /\ ChIdle
    /\ RirIdle
    /\ pc = "start"
    /\ num_eval_batches \in 0..MaxBatches
    /\ skip_benign \in BOOLEAN
    /\ skip_attack \in BOOLEAN
    /\ skip_misclassified \in BOOLEAN
    /\ batch_size \in BatchSizes
    /\ EvLocalsUnset

\* the model loaded before skip_misclassified is looked at
CheckAndLoadModel_LoadFirst ==
    /\ pc = "start"
    /\ \E defences \in InitialDefences :
        /\ estimator' = [preprocessing_defences |-> defences,
                         preprocessing_operations |-> defences,
                         wrappers |-> <<>>]
        /\ calls' = Append(calls, Call("load_model", "", 0, Len(defences)))
    /\ IF skip_misclassified
       THEN Raise("ValueError: skip_misclassified")
       ELSE pc' = StepAfter("start") /\ UNCHANGED raised
    /\ UNCHANGED <<argVars, batch_size, adhoc, audio_channel, defense_type,
                   fit_kwargs, attack_type, targeted, rir, attack, use_label,
                   sample_exporter, y_target, batch, metrics_logger, results>>
    /\ UNCHANGED <<chVars, rirVars>>

\* lines 162-166: the skip_misclassified check, then load_model
CheckAndLoadModel ==
    /\ pc = "start"
    /\ IF skip_misclassified
       THEN /\ Raise("ValueError: skip_misclassified")
            /\ UNCHANGED <<estimator, calls>>
       ELSE \E defences \in InitialDefences :
            /\ estimator' = [preprocessing_defences |-> defences,
                             preprocessing_operations |-> defences,
                             wrappers |-> <<>>]
            /\ calls' = Append(calls, Call("load_model", "", 0, Len(defences)))
            /\ pc' = StepAfter("start")
            /\ UNCHANGED raised
    /\ UNCHANGED <<argVars, batch_size, adhoc, audio_channel, defense_type,
                   fit_kwargs, attack_type, targeted, rir, attack, use_label,
                   sample_exporter, y_target, batch, metrics_logger, results>>
    /\ UNCHANGED <<chVars, rirVars>>

\* only the key delay is required
MissingChannelKey_DelayOnly(keys) ==
    IF "delay" \notin keys THEN "delay" ELSE ""

\* the first required key the audio_channel entry lacks, "" if none
MissingChannelKey(keys) ==
    IF "delay" \notin keys THEN "delay"
    ELSE IF "attenuation" \notin keys THEN "attenuation"
    ELSE ""

\* the channel put last in preprocessing_defences
InsertChannel_Append(defences) ==
    IF defences # <<>> THEN defences \o <<"audio_channel">>
    ELSE <<"audio_channel">>

\* lines 175-178: the channel put first in preprocessing_defences
InsertChannel(defences) ==
    IF defences # <<>> THEN <<"audio_channel">> \o defences
    ELSE <<"audio_channel">>

\* lines 168-179: channel injection
ChannelInjection ==
    /\ pc = "channel"
    /\ \E cfg \in AdhocConfigs :
        /\ adhoc' = [adhoc EXCEPT !.kind = cfg.kind,
                                  !.audio_channel = cfg.audio_channel,
                                  !.keys = cfg.keys]
        /\ IF cfg.kind = "null"
           THEN /\ Raise("AttributeError: adhoc is None")
                /\ UNCHANGED <<estimator, audio_channel, calls>>
           ELSE IF cfg.audio_channel = "absent"
           THEN /\ pc' = StepAfter("channel")
                /\ UNCHANGED <<raised, estimator, audio_channel, calls>>
           ELSE IF MissingChannelKey(cfg.keys) # ""
           THEN /\ Raise(IF MissingChannelKey(cfg.keys) = "delay"
                         THEN "ValueError: audio_channel must have key delay"
                         ELSE "ValueError: audio_channel must have key attenuation")
                /\ UNCHANGED <<estimator, audio_channel, calls>>
           ELSE LET ch == load_audio_channel(cfg.delay, cfg.attenuation,
                                             TRUE, cfg.torchOK)
                IN  IF ch.error # "none"
                    THEN /\ Raise("ValueError: delay must be nonnegative")
                         /\ UNCHANGED <<estimator, audio_channel, calls>>
                    ELSE LET ds == InsertChannel(estimator.preprocessing_defences)
                         IN  /\ audio_channel' = ch
                             /\ estimator' =
                                  [estimator EXCEPT
                                     !.preprocessing_defences = ds,
                                     !.preprocessing_operations = ds]
                             /\ calls' = Append(calls,
                                  Call("_update_preprocessing_operations", "", 0, 0))
                             /\ pc' = StepAfter("channel")
                             /\ UNCHANGED raised
    /\ UNCHANGED <<argVars, batch_size, defense_type, fit_kwargs, attack_type,
                   targeted, rir, attack, use_label, sample_exporter, y_target,
                   batch, metrics_logger, results>>
    /\ UNCHANGED <<chVars, rirVars>>

\* lines 181-187: the Preprocessor / Postprocessor defense wraps the estimator
DefenseInternal ==
    /\ pc = "defense"
    /\ \E dt \in DefenseTypes :
        /\ defense_type' = dt
        /\ IF dt \in {"Preprocessor", "Postprocessor"}
           THEN /\ calls' = Append(calls, Call("load_defense_internal", dt, 0, 0))
                /\ estimator' = [estimator EXCEPT !.wrappers = Append(@, dt)]
           ELSE UNCHANGED <<calls, estimator>>
    /\ pc' = StepAfter("defense")
    /\ UNCHANGED <<raised, argVars, batch_size, adhoc, audio_channel, fit_kwargs,
                   attack_type, targeted, rir, attack, use_label,
                   sample_exporter, y_target, batch, metrics_logger, results>>
    /\ UNCHANGED <<chVars, rirVars>>

\* lines 198-200: the batch size the training data is loaded with
FitBatchSize(fk, popped) ==
    IF fk.fit_batch_size # 0 THEN fk.fit_batch_size ELSE popped

\* the fit batch size left in config["dataset"]
RestoredBatchSize_Kept(popped, overridden) == overridden

\* line 208: config["dataset"]["batch_size"] = batch_size
RestoredBatchSize(popped, overridden) == popped

\* lines 189-208: the training data, loaded with the fit batch size
FitLoadTrain ==
    /\ pc = "fit"
    /\ \E fk \in FitConfigs :
        /\ fit_kwargs' = fk
        /\ IF ~fk.fit
           THEN /\ pc' = StepAfter("fit")
                /\ UNCHANGED <<calls, batch_size>>
           ELSE LET popped     == batch_size
                    overridden == FitBatchSize(fk, popped)
                IN  /\ calls' = Append(calls,
                          Call("load_dataset", "train", 0, overridden))
                    /\ batch_size' = RestoredBatchSize(popped, overridden)
                    /\ pc' = "fit_generator"
    /\ UNCHANGED <<raised, argVars, adhoc, estimator, audio_channel, defense_type,
                   attack_type, targeted, rir, attack, use_label,
                   sample_exporter, y_target, batch, metrics_logger, results>>
    /\ UNCHANGED <<chVars, rirVars>>

\* the estimator fitted as well after the Trainer defense
FitGenerator_Both ==
    /\ pc = "fit_generator"
    /\ calls' = IF defense_type = "Trainer"
                THEN calls \o <<Call("load_defense_wrapper", "Trainer", 0, 0),
                                Call("fit_generator", "defense", 0, 0),
                                Call("fit_generator", "estimator", 0, 0)>>
                ELSE Append(calls, Call("fit_generator", "estimator", 0, 0))
    /\ pc' = StepAfter("fit")
    /\ UNCHANGED <<raised, argVars, batch_size, adhoc, localVars, batch,
                   metrics_logger, results>>
    /\ UNCHANGED <<chVars, rirVars>>

\* lines 209-215: fit through the Trainer defense, or the estimator itself
FitGenerator ==
    /\ pc = "fit_generator"
    /\ calls' = IF defense_type = "Trainer"
                THEN calls \o <<Call("load_defense_wrapper", "Trainer", 0, 0),
                                Call("fit_generator", "defense", 0, 0)>>
                ELSE Append(calls, Call("fit_generator", "estimator", 0, 0))
    /\ pc' = StepAfter("fit")
    /\ UNCHANGED <<raised, argVars, batch_size, adhoc, localVars, batch,
                   metrics_logger, results>>
    /\ UNCHANGED <<chVars, rirVars>>

\* lines 217-222: the Transform defense replaces the estimator
Transform ==
    /\ pc = "transform"
    /\ IF defense_type = "Transform"
       THEN /\ calls' = Append(calls, Call("load_defense_wrapper", "Transform", 0, 0))
            /\ estimator' = [estimator EXCEPT !.wrappers = Append(@, "Transform")]
       ELSE UNCHANGED <<calls, estimator>>
    /\ pc' = StepAfter("transform")
    /\ UNCHANGED <<raised, argVars, batch_size, adhoc, audio_channel, defense_type,
                   fit_kwargs, attack_type, targeted, rir, attack, use_label,
                   sample_exporter, y_target, batch, metrics_logger, results>>
    /\ UNCHANGED <<chVars, rirVars>>

\* lines 224-240: the attack settings, the metrics logger and the RIR
Setup ==
    /\ pc = "setup"
    /\ \E at \in {"preloaded", "generated"}, tg \in BOOLEAN, rirFound \in BOOLEAN :
        /\ attack_type' = at
        /\ targeted' = tg
        /\ metrics_logger' = EmptyMetrics
        /\ calls' = calls
              \o <<Call("MetricsLogger.from_config", "", 0, 0)>>
              \o (IF batch_size # 1
                  THEN <<Call("logger.warning", "batch_size != 1", 0, batch_size)>>
                  ELSE <<>>)
              \o <<Call("Readrir", "", 0, ReadrirIndex(0))>>
        /\ IF rirFound
           THEN /\ rir' = ReadrirIndex(0)
                /\ pc' = "benign"
                /\ UNCHANGED raised
           ELSE /\ Raise("FileNotFoundError: rir")
                /\ UNCHANGED rir
    /\ UNCHANGED <<argVars, batch_size, adhoc, estimator, audio_channel,
                   defense_type, fit_kwargs, attack, use_label, sample_exporter,
                   y_target, batch, results>>
    /\ UNCHANGED <<chVars, rirVars>>

\* what the debugging hooks of one loop iteration do: to_wav writes a file
\* (which may fail) after a breakpoint(), and the benign loop has a second
\* breakpoint(); a breakpoint the user or a closed stdin quits raises BdbQuit
BenignDebugOutcomes == {"ok", "to_wav raises", "breakpoint quits"}

AttackDebugOutcomes == {"ok", "to_wav raises"}

\* the benign phase run whatever skip_benign says
SkipsBenign_Never(skipBenign) == FALSE

\* line 242: if skip_benign
SkipsBenign(skipBenign) == skipBenign

\* lines 242-253: the benign phase is skipped, or its dataset loaded
BenignStart ==
    /\ pc = "benign"
    /\ IF SkipsBenign(skip_benign)
       THEN /\ pc' = "skip_check"
            /\ UNCHANGED <<calls, batch>>
       ELSE /\ calls' = Append(calls, Call("load_dataset", "eval", 0, batch_size))
            /\ batch' = 0
            /\ pc' = "benign_loop"
    /\ UNCHANGED <<raised, argVars, batch_size, adhoc, localVars,
                   metrics_logger, results>>
    /\ UNCHANGED <<chVars, rirVars>>

\* lines 255-269: one benign batch
BenignBatch ==
    /\ pc = "benign_loop"
    /\ batch < num_eval_batches
    /\ \E outcome \in BenignDebugOutcomes :
        LET i    == batch + 1
            pre  == <<Call("create_speech_rir", "benign", i, rir),
                      Call("to_wav", "/workspace/test.wav", i, 0)>>
            post == <<Call("predict", "benign", i, 0),
                      Call("update_task", "benign", i, 0)>>
        IN  IF outcome = "ok"
            THEN /\ calls' = calls \o pre \o post
                 /\ metrics_logger' =
                       [metrics_logger EXCEPT !.benign = Append(@, i)]
                 /\ batch' = i
                 /\ UNCHANGED <<pc, raised>>
            ELSE /\ calls' = calls \o pre
                 /\ Raise(IF outcome = "to_wav raises"
                          THEN "OSError: to_wav" ELSE "BdbQuit")
                 /\ UNCHANGED <<metrics_logger, batch>>
    /\ UNCHANGED <<argVars, batch_size, adhoc, localVars, results>>
    /\ UNCHANGED <<chVars, rirVars>>

\* line 270: log_task() after the last benign batch
BenignLog ==
    /\ pc = "benign_loop"
    /\ batch = num_eval_batches
    /\ calls' = Append(calls, Call("log_task", "benign", 0, 0))
    /\ metrics_logger' = [metrics_logger EXCEPT !.logged = Append(@, "benign")]
    /\ pc' = "skip_check"
    /\ UNCHANGED <<raised, argVars, batch_size, adhoc, localVars, batch, results>>
    /\ UNCHANGED <<chVars, rirVars>>

\* return metrics_logger.results()
Return(logger) ==
    /\ results' = logger
    /\ pc' = "done"

\* the attack phase is left out only when both skip settings ask for it
SkipsAttack_Both(skipAttack, skipAdversarial) == skipAttack /\ skipAdversarial

\* lines 272 and 277: the attack phase is left out
SkipsAttack(skipAttack, skipAdversarial) == skipAttack \/ skipAdversarial

\* lines 272-279: the early returns
SkipCheck ==
    /\ pc = "skip_check"
    /\ \E sa \in (IF adhoc.kind = "dict" THEN BOOLEAN ELSE {FALSE}) :
        /\ adhoc' = [adhoc EXCEPT !.skip_adversarial =
                        IF skip_attack THEN "unread"
                        ELSE IF sa THEN "set" ELSE "unset"]
        /\ IF SkipsAttack(skip_attack, sa)
           THEN /\ Return(metrics_logger)
                /\ calls' = Append(calls, Call("results", "", 0, 0))
           ELSE /\ pc' = "attack_load"
                /\ UNCHANGED <<results, calls>>
    /\ UNCHANGED <<raised, argVars, batch_size, localVars, batch, metrics_logger>>
    /\ UNCHANGED <<chVars, rirVars>>

\* lines 284-315: the adversarial dataset or the attack, and the exporter
AttackLoad ==
    /\ pc = "attack_load"
    /\ \E atk \in {"targeted", "untargeted"}, ul \in BOOLEAN, es \in ExportSamples :
        LET atkTargeted == atk = "targeted"
            load ==
              IF attack_type = "preloaded"
              THEN <<Call("load_adversarial_dataset", "", 0, 0)>>
              ELSE <<Call("load_attack", atk, 0, 0)>>
                   \o (IF targeted # atkTargeted
                       THEN <<Call("logger.warning", "targeted config != attack field", 0, 0)>>
                       ELSE <<>>)
                   \o <<Call("load_dataset", "eval", 0, batch_size)>>
                   \o (IF targeted
                       THEN <<Call("load_label_targeter", "", 0, 0)>>
                       ELSE <<>>)
            exporter == es > 0
        IN  /\ attack_type = "preloaded" => atk = "untargeted"
            /\ attack' = IF attack_type = "preloaded" THEN "unbound" ELSE atk
            /\ use_label' = ul
            /\ sample_exporter' = IF exporter THEN "exporter" ELSE "None"
            /\ calls' = calls \o load
                  \o (IF exporter THEN <<Call("SampleExporter", "", 0, es)>> ELSE <<>>)
    /\ batch' = 0
    /\ pc' = "attack_loop"
    /\ UNCHANGED <<raised, argVars, batch_size, adhoc, estimator, audio_channel,
                   defense_type, fit_kwargs, attack_type, targeted, rir, y_target,
                   metrics_logger, results>>
    /\ UNCHANGED <<chVars, rirVars>>

\* lines 323-333: the branch that yields x_adv
AttackMode ==
    IF attack_type = "preloaded" THEN "replay"
    ELSE IF use_label THEN "generate with label"
    ELSE IF targeted THEN "generate with target"
    ELSE "generate untargeted"

\* the targeted branch tested by an if of its own: it is also taken after
\* the use_label branch
ObtainCalls_NoElif(mode, i) ==
    IF mode = "replay" THEN <<Call("replay", mode, i, 0)>>
    ELSE IF mode = "generate with target"
    THEN <<Call("label_targeter.generate", "", i, 0),
           Call("attack.generate", mode, i, 0)>>
    ELSE IF mode = "generate with label" /\ targeted
    THEN <<Call("attack.generate", mode, i, 0),
           Call("label_targeter.generate", "", i, 0),
           Call("attack.generate", "generate with target", i, 0)>>
    ELSE <<Call("attack.generate", mode, i, 0)>>

\* lines 323-333: the calls that yield x_adv for batch i
ObtainCalls(mode, i) ==
    IF mode = "replay" THEN <<Call("replay", mode, i, 0)>>
    ELSE IF mode = "generate with target"
    THEN <<Call("label_targeter.generate", "", i, 0),
           Call("attack.generate", mode, i, 0)>>
    ELSE <<Call("attack.generate", mode, i, 0)>>

\* lines 317-350: one attack batch
AttackBatch ==
    /\ pc = "attack_loop"
    /\ batch < num_eval_batches
    /\ \E outcome \in AttackDebugOutcomes :
        LET i    == batch + 1
            mode == AttackMode
            \* y_target is assigned in two branches only
            yt   == IF mode = "replay" /\ targeted THEN i
                    ELSE IF mode = "generate with target" THEN i
                    ELSE y_target
            obtain == ObtainCalls(mode, i)
            pre  == obtain \o <<Call("create_speech_rir", "adversarial", i, rir),
                                Call("to_wav", "~/test.wav", i, 0)>>
            task == <<Call("predict", "adversarial", i, 0),
                      Call("update_task", "adversarial", i, 0)>>
            rest == (IF targeted
                     THEN <<Call("update_task", "targeted", i, yt)>> ELSE <<>>)
                    \o <<Call("update_perturbation", "", i, 0)>>
                    \o (IF sample_exporter = "exporter"
                        THEN <<Call("export", "", i, 0)>> ELSE <<>>)
        IN  /\ y_target' = yt
            /\ IF outcome # "ok"
               THEN /\ calls' = calls \o pre
                    /\ Raise("OSError: to_wav")
                    /\ UNCHANGED <<metrics_logger, batch>>
               ELSE IF targeted /\ yt = 0
               THEN \* y_target is read before any assignment
                    /\ calls' = calls \o pre \o task
                    /\ metrics_logger' =
                          [metrics_logger EXCEPT !.adversarial = Append(@, i)]
                    /\ Raise("UnboundLocalError: y_target")
                    /\ UNCHANGED batch
               ELSE /\ calls' = calls \o pre \o task \o rest
                    /\ metrics_logger' =
                          [metrics_logger EXCEPT
                             !.adversarial = Append(@, i),
                             !.targeted = IF targeted THEN Append(@, i) ELSE @,
                             !.perturbation = Append(@, i)]
                    /\ batch' = i
                    /\ UNCHANGED <<pc, raised>>
    /\ UNCHANGED <<argVars, batch_size, adhoc, estimator, audio_channel,
                   defense_type, fit_kwargs, attack_type, targeted, rir, attack,
                   use_label, sample_exporter, results>>
    /\ UNCHANGED <<chVars, rirVars>>

\* lines 351-354: the adversarial metrics are logged and the results returned
Finalize ==
    /\ pc = "attack_loop"
    /\ batch = num_eval_batches
    /\ LET logs == <<Call("log_task", "adversarial", 0, 0)>>
                   \o (IF targeted
                       THEN <<Call("log_task", "targeted", 0, 0)>> ELSE <<>>)
           logger == [metrics_logger EXCEPT !.logged =
                        @ \o <<"adversarial">>
                          \o (IF targeted THEN <<"targeted">> ELSE <<>>)]
       IN  /\ calls' = calls \o logs \o <<Call("results", "", 0, 0)>>
           /\ metrics_logger' = logger
           /\ Return(logger)
    /\ UNCHANGED <<raised, argVars, batch_size, adhoc, localVars, batch>>
    /\ UNCHANGED <<chVars, rirVars>>

Next ==
    \/ CheckAndLoadModel
    \/ ChannelInjection
    \/ DefenseInternal
    \/ FitLoadTrain
    \/ FitGenerator
    \/ Transform
    \/ Setup
    \/ BenignStart
    \/ BenignBatch
    \/ BenignLog
    \/ SkipCheck
    \/ AttackLoad
    \/ AttackBatch
    \/ Finalize

Spec == EvInit /\ [][Next]_vars

----------------------------------------------------------------------------
(* Properties of _evaluate.                                                *)

\* the calls made so far that satisfy P
CallsWhere(P(_)) == {k \in 1..Len(calls) : P(calls[k])}

Called(op) == \E k \in 1..Len(calls) : calls[k].op = op

CalledAs(op, tag) == \E k \in 1..Len(calls) : calls[k].op = op /\ calls[k].tag = tag

\* C1: with skip_misclassified true the run raises the configuration error
\* (ValueError) as its first step, and no collaborator is ever called in it:
\* no load_model, load_dataset, load_adversarial_dataset, Readrir,
\* fit_generator, predict or metrics update.
C1_SkipMisclassifiedFailsFast ==
    skip_misclassified =>
        /\ pc \in {"start", "raised"}
        /\ pc = "raised" => raised = "ValueError: skip_misclassified"
        /\ calls = <<>>
        /\ metrics_logger = EmptyMetrics

\* C1 witness: a run with skip_misclassified has raised.
C1_Witness ==
    /\ skip_misclassified
    /\ pc = "raised"
    /\ raised = "ValueError: skip_misclassified"

\* the run leaves out the attack phase: skip_attack, or skip_adversarial set
AttackSkipped == skip_attack \/ adhoc.skip_adversarial = "set"

\* the calls of the attack phase
AttackOps == {"load_attack", "load_adversarial_dataset", "load_label_targeter",
              "attack.generate", "label_targeter.generate", "replay",
              "update_perturbation", "SampleExporter", "export"}

IsAttackCall(c) ==
    \/ c.op \in AttackOps
    \/ c.op = "update_task" /\ c.tag \in {"adversarial", "targeted"}
    \/ c.op \in {"predict", "create_speech_rir", "log_task"}
         /\ c.tag \in {"adversarial", "targeted"}

\* the batches 1..n in order
UpTo(n) == [i \in 1..n |-> i]

\* C2: in a run with skip_attack true or adhoc.skip_adversarial set, the
\* run never enters the attack phase and makes no call of load_attack,
\* load_adversarial_dataset, load_label_targeter, attack.generate,
\* update_task(adversarial=True), update_perturbation or SampleExporter;
\* results() is what it calls right after the benign phase, and the value
\* returned holds only what the benign phase accumulated.
C2_SkipAttackReturnsBenignOnly ==
    AttackSkipped =>
        /\ pc \notin {"attack_load", "attack_loop"}
        /\ CallsWhere(IsAttackCall) = {}
        /\ pc = "done" =>
              /\ calls[Len(calls)].op = "results"
              /\ Len(calls) > 1
              /\ calls[Len(calls) - 1].op \in
                    (IF skip_benign THEN {"Readrir"} ELSE {"log_task"})
              /\ results = metrics_logger
              /\ results.adversarial = <<>>
              /\ results.targeted = <<>>
              /\ results.perturbation = <<>>
              /\ results.benign =
                    (IF skip_benign THEN <<>> ELSE UpTo(num_eval_batches))
              /\ results.logged = (IF skip_benign THEN <<>> ELSE <<"benign">>)

\* C2 witness: a run with skip_attack false and skip_adversarial set has
\* returned the results of a full benign phase.
C2_Witness ==
    /\ pc = "done"
    /\ ~skip_attack
    /\ adhoc.skip_adversarial = "set"
    /\ ~skip_benign
    /\ num_eval_batches = MaxBatches
    /\ results.benign = UpTo(MaxBatches)

IsBenignCall(c) ==
    /\ c.op \in {"predict", "update_task", "log_task", "create_speech_rir"}
    /\ c.tag = "benign"

IsBenignUpdate(c) == c.op = "update_task" /\ c.tag = "benign"

IsBenignLog(c) == c.op = "log_task" /\ c.tag = "benign"

IsEvalLoad(c) == c.op = "load_dataset" /\ c.tag = "eval"

AfterBenign == pc \in {"skip_check", "attack_load", "attack_loop", "done"}

\* C3: with skip_benign true there is no benign-phase work: the evaluation
\* dataset is not loaded before the attack phase, and there is no benign
\* predict, no update_task without adversarial=True and no benign
\* log_task(); with skip_benign false, update_task(y, y_pred) is called
\* exactly once for each benign batch processed, in batch order, and
\* log_task() exactly once, after the update of the last batch.
C3_BenignPhase ==
    /\ skip_benign =>
          /\ pc # "benign_loop"
          /\ CallsWhere(IsBenignCall) = {}
          /\ metrics_logger.benign = <<>>
          /\ (pc \notin {"attack_loop", "done", "raised"}
                => CallsWhere(IsEvalLoad) = {})
          /\ (attack = "unbound" => CallsWhere(IsEvalLoad) = {})
    /\ ~skip_benign =>
          /\ \A i \in 1..num_eval_batches :
                Cardinality({k \in CallsWhere(IsBenignUpdate) : calls[k].i = i})
                    = (IF i <= Len(metrics_logger.benign) THEN 1 ELSE 0)
          /\ Cardinality(CallsWhere(IsBenignUpdate)) = Len(metrics_logger.benign)
          /\ metrics_logger.benign = UpTo(Len(metrics_logger.benign))
          /\ Cardinality(CallsWhere(IsBenignLog)) <= 1
          /\ \A k \in CallsWhere(IsBenignLog) :
                /\ Len(metrics_logger.benign) = num_eval_batches
                /\ \A j \in CallsWhere(IsBenignUpdate) : j < k
          /\ AfterBenign => Cardinality(CallsWhere(IsBenignLog)) = 1

\* C3 witness: a run with skip_benign false has finished a benign phase of
\* the most batches, one update each, and logged it.
C3_Witness ==
    /\ ~skip_benign
    /\ pc = "skip_check"
    /\ num_eval_batches = MaxBatches
    /\ Cardinality(CallsWhere(IsBenignUpdate)) = MaxBatches
    /\ Cardinality(CallsWhere(IsBenignLog)) = 1

\* the audio_channel entry was read and lacks delay or attenuation
ChannelKeyMissing ==
    /\ adhoc.audio_channel = "present"
    /\ ("delay" \notin adhoc.keys \/ "attenuation" \notin adhoc.keys)

\* C4: when adhoc.audio_channel is present but lacks 'delay' or
\* 'attenuation', the run raises the configuration error naming the missing
\* key with no data touched: no load_dataset, load_adversarial_dataset,
\* Readrir, fit_generator or predict call, no
\* _update_preprocessing_operations call, and preprocessing_defences as
\* load_model returned it, without the channel.
C4_ChannelKeyMissingFailsFast ==
    ChannelKeyMissing =>
        /\ pc = "raised"
        /\ raised = (IF "delay" \notin adhoc.keys
                     THEN "ValueError: audio_channel must have key delay"
                     ELSE "ValueError: audio_channel must have key attenuation")
        /\ Len(calls) = 1
        /\ calls[1].op = "load_model"
        /\ ~Called("_update_preprocessing_operations")
        /\ Len(estimator.preprocessing_defences) = calls[1].v
        /\ estimator.preprocessing_defences \in InitialDefences
        /\ estimator.preprocessing_operations = estimator.preprocessing_defences
        /\ audio_channel = NoFilter

\* C4 witness: an audio_channel with delay but no attenuation has raised,
\* on an estimator that has two preprocessing defences.
C4_Witness ==
    /\ pc = "raised"
    /\ adhoc.audio_channel = "present"
    /\ adhoc.keys = {"delay"}
    /\ raised = "ValueError: audio_channel must have key attenuation"
    /\ estimator.preprocessing_defences = <<"d1", "d2">>

\* the place of a call in the order of the steps of a run: 1 channel
\* injection, 2 Preprocessor / Postprocessor wrapping, 3 fit, 4 benign phase,
\* 5 attack phase; 0 for the calls that belong to no one of these steps
StepRank(c) ==
    IF c.op = "_update_preprocessing_operations" THEN 1
    ELSE IF c.op = "load_defense_internal" THEN 2
    ELSE IF \/ c.op = "fit_generator"
            \/ c.op = "load_dataset" /\ c.tag = "train"
            \/ c.op = "load_defense_wrapper" /\ c.tag = "Trainer"
    THEN 3
    ELSE IF IsBenignCall(c) THEN 4
    ELSE IF IsAttackCall(c) THEN 5
    ELSE 0

InAStep(c) == StepRank(c) # 0

IsPredict(c) == c.op = "predict"

IsFitGenerator(c) == c.op = "fit_generator"

IsDefenseWrap(c) == c.op = "load_defense_internal"

\* C11: in every run the steps occur in the order channel injection,
\* Preprocessor / Postprocessor defense wrapping, fit, benign phase, attack
\* phase: no call of a later step precedes a call of an earlier one.  In
\* particular the defense wrap precedes the first fit_generator call and the
\* first predict call, and every fit_generator call has returned before the
\* first predict call.
C11_StepOrder ==
    LET steps == SelectSeq(calls, InAStep)
    IN  /\ \A k \in 1..(Len(steps) - 1) :
              StepRank(steps[k]) <= StepRank(steps[k + 1])
        /\ \A k \in 1..Len(calls) :
              IsDefenseWrap(calls[k]) =>
                  \A j \in 1..(k - 1) :
                      ~IsFitGenerator(calls[j]) /\ ~IsPredict(calls[j])
        /\ \A k \in 1..Len(calls) :
              IsFitGenerator(calls[k]) =>
                  \A j \in 1..(k - 1) : ~IsPredict(calls[j])
        /\ Called("predict") =>
              pc \notin {"start", "channel", "defense", "fit", "fit_generator",
                         "transform", "setup"}

\* C11 witness: a run that injected a channel, wrapped a Preprocessor
\* defense, fitted the estimator and went through its benign phase is in its
\* attack phase, with an adversarial batch predicted.
C11_Witness ==
    /\ pc = "attack_loop"
    /\ batch >= 1
    /\ Called("_update_preprocessing_operations")
    /\ CalledAs("load_defense_internal", "Preprocessor")
    /\ CalledAs("fit_generator", "estimator")
    /\ CalledAs("predict", "benign")
    /\ CalledAs("predict", "adversarial")

IsAdversarialUpdate(c) == c.op = "update_task" /\ c.tag = "adversarial"

IsTargetedUpdate(c) == c.op = "update_task" /\ c.tag = "targeted"

\* C12: in every attack iteration that comes to the targeted metric update
\* (the configured targeted flag is true and the adversarial update of the
\* batch was made), y_target has been assigned for that batch in the same
\* iteration: the targeted update is made with the target of that batch and
\* no read of an unassigned y_target ends the run.  This is for every
\* attack type, use_label and targeted, use_label with targeted included.
C12_TargetAssignedBeforeTargetedUpdate ==
    /\ raised # "UnboundLocalError: y_target"
    /\ \A k \in 1..Len(calls) :
          /\ IsTargetedUpdate(calls[k]) => calls[k].v = calls[k].i
          /\ (targeted /\ IsAdversarialUpdate(calls[k])) =>
                /\ k < Len(calls)
                /\ IsTargetedUpdate(calls[k + 1])
                /\ calls[k + 1].i = calls[k].i

\* a call that yields the adversarial batch
IsObtain(c) == c.op \in {"replay", "attack.generate"}

\* C13: within one run every attack batch is obtained the same way (replay
\* of a preloaded pair, generate with the true label, generate with a
\* label-targeter target, or untargeted generate), once per iteration:
\* attack.generate is called at most once in an iteration, and never in a
\* preloaded run.
C13_OneAttackMode ==
    LET obtains == SelectSeq(calls, IsObtain)
    IN  /\ \A k \in 1..Len(obtains) :
              /\ obtains[k].i = k
              /\ obtains[k].tag = obtains[1].tag
              /\ obtains[k].tag = AttackMode
              /\ (obtains[k].op = "replay") <=> (attack_type = "preloaded")
        /\ pc = "attack_loop" => Len(obtains) = batch
        /\ Len(obtains) <= num_eval_batches
        /\ attack_type = "preloaded" =>
              ~Called("attack.generate") /\ ~Called("label_targeter.generate")

\* C13 witness: the most batches were each obtained by one attack.generate
\* call on a label-targeter target.
C13_Witness ==
    /\ pc = "attack_loop"
    /\ batch = MaxBatches
    /\ AttackMode = "generate with target"
    /\ Len(SelectSeq(calls, IsObtain)) = MaxBatches
    /\ \A k \in 1..Len(calls) :
          IsObtain(calls[k]) =>
              calls[k].op = "attack.generate" /\ calls[k].tag = AttackMode

\* a call of the attack loop made for a batch
IsAttackBatchCall(c) ==
    /\ c.i > 0
    /\ \/ IsAttackCall(c)
       \/ c.op = "to_wav" /\ c.tag = "~/test.wav"

\* the names of the calls of one attack iteration after x_adv is obtained,
\* in the order claimed, the debugging to_wav at its place
StepsAfterObtain ==
    <<"create_speech_rir", "to_wav", "predict", "update_task">>
    \o (IF targeted THEN <<"update_task">> ELSE <<>>)
    \o <<"update_perturbation">>
    \o (IF sample_exporter = "exporter" THEN <<"export">> ELSE <<>>)

\* C14: every attack batch that is predicted goes through all of these
\* steps in this order before the next batch is fetched: x_adv is obtained
\* (generate or replay), the RIR is applied to it, the estimator predicts on
\* the result, update_task(adversarial=True) is called, the targeted update
\* follows iff targeted, then update_perturbation, then export iff a sample
\* exporter exists, which is the case iff export_samples > 0.
C14_AttackBatchSteps ==
    LET loop == SelectSeq(calls, IsAttackBatchCall)
        ops  == [k \in 1..Len(loop) |-> loop[k].op]
    IN  /\ \A k \in 1..(Len(loop) - 1) : loop[k].i <= loop[k + 1].i
        /\ \A k \in 1..Len(loop) :
              (loop[k].op = "predict") =>
                  LET first == k - 2
                      last  == first + Len(StepsAfterObtain) - 1
                  IN  /\ first > 1
                      /\ IsObtain(loop[first - 1])
                      /\ last <= Len(loop)
                      /\ SubSeq(ops, first, last) = StepsAfterObtain
                      /\ \A j \in (first - 1)..last : loop[j].i = loop[k].i
                      /\ last < Len(loop) => loop[last + 1].i = loop[k].i + 1
                      /\ loop[first + 3].tag = "adversarial"
                      /\ targeted => loop[first + 4].tag = "targeted"
        /\ (sample_exporter = "exporter") <=>
              (\E k \in 1..Len(calls) :
                   calls[k].op = "SampleExporter" /\ calls[k].v > 0)

\* preprocessing_defences as load_model returned it
LoadedDefences == CHOOSE d \in InitialDefences : Len(d) = calls[1].v

IsPipelineUpdate(c) == c.op = "_update_preprocessing_operations"

\* C15: when the audio_channel configuration has both keys (and a delay
\* load_audio_channel accepts), after channel injection the channel filter
\* is the first element of preprocessing_defences, the defences configured
\* before follow it in their order, none dropped or duplicated, and the
\* preprocessing pipeline was re-derived, once, from the new list; when
\* there is no audio_channel configuration the list is as load_model
\* returned it and the pipeline is not re-derived.
C15_ChannelFirst ==
    /\ (/\ adhoc.keys = {"delay", "attenuation"}
        /\ raised # "ValueError: delay must be nonnegative") =>
          /\ Len(estimator.preprocessing_defences) = Len(LoadedDefences) + 1
          /\ Head(estimator.preprocessing_defences) = "audio_channel"
          /\ Tail(estimator.preprocessing_defences) = LoadedDefences
          /\ estimator.preprocessing_operations = estimator.preprocessing_defences
          /\ Len(SelectSeq(calls, IsPipelineUpdate)) = 1
          /\ audio_channel # NoFilter
    /\ adhoc.audio_channel = "absent" =>
          /\ estimator.preprocessing_defences = LoadedDefences
          /\ estimator.preprocessing_operations = LoadedDefences
          /\ ~Called("_update_preprocessing_operations")
          /\ audio_channel = NoFilter

\* C15 witness: a channel was put before the two defences d1, d2 and the
\* run has gone on to its benign phase.
C15_Witness ==
    /\ pc = "benign_loop"
    /\ adhoc.keys = {"delay", "attenuation"}
    /\ estimator.preprocessing_defences = <<"audio_channel", "d1", "d2">>
    /\ estimator.preprocessing_operations = <<"audio_channel", "d1", "d2">>
    /\ Called("_update_preprocessing_operations")

IsTrainLoad(c) == c.op = "load_dataset" /\ c.tag = "train"

\* C16: when fit is configured the training dataset is loaded with
\* fit_batch_size if fit_kwargs gives one, else with the configured batch
\* size; no step of the run, the fit step included, leaves
\* config["dataset"]["batch_size"] different from what it was before the
\* step, so the benign and attack phases load their data with the batch
\* size configured at the start.
C16_FitBatchSizeRestored ==
    /\ [](\A k \in 1..Len(calls) :
            /\ IsTrainLoad(calls[k]) =>
                  /\ fit_kwargs.fit
                  /\ calls[k].v = (IF fit_kwargs.fit_batch_size # 0
                                   THEN fit_kwargs.fit_batch_size
                                   ELSE batch_size)
            /\ IsEvalLoad(calls[k]) => calls[k].v = batch_size)
    /\ [](/\ (fit_kwargs.fit /\ pc \notin {"fit", "raised"})
                => Len(SelectSeq(calls, IsTrainLoad)) = 1
          /\ ~fit_kwargs.fit => ~CalledAs("load_dataset", "train"))
    /\ [][batch_size' = batch_size]_vars

\* C16 witness: with batch size 2 configured and fit_batch_size 16, the
\* training data was loaded with 16 and the attack data with 2.
C16_Witness ==
    /\ pc = "attack_loop"
    /\ batch_size = 2
    /\ fit_kwargs.fit_batch_size = 16
    /\ \E k \in 1..Len(calls) : IsTrainLoad(calls[k]) /\ calls[k].v = 16
    /\ \E k \in 1..Len(calls) : IsEvalLoad(calls[k]) /\ calls[k].v = 2
    /\ attack_type = "generated"

\* C17: when fit is configured the run makes exactly one fit_generator
\* call, on the Trainer defense wrapper if and only if the defense type is
\* 'Trainer' and on the estimator otherwise, never on both; when fit is not
\* configured it makes none.
C17_OneFitGenerator ==
    LET fits == SelectSeq(calls, IsFitGenerator)
    IN  /\ Len(fits) <= 1
        /\ Len(fits) = 1 =>
              /\ fit_kwargs.fit
              /\ (fits[1].tag = "defense") <=> (defense_type = "Trainer")
              /\ (fits[1].tag = "estimator") <=> (defense_type # "Trainer")
              /\ CalledAs("load_defense_wrapper", "Trainer")
                    <=> (defense_type = "Trainer")
        /\ (fit_kwargs.fit /\ pc # "fit_generator") => Len(fits) = 1
        /\ ~fit_kwargs.fit =>
              Len(fits) = 0 /\ ~CalledAs("load_defense_wrapper", "Trainer")

\* C17 witness: a run with fit configured and a Trainer defense has
\* returned, having fitted through the defense wrapper only.
C17_Witness ==
    /\ pc = "done"
    /\ fit_kwargs.fit
    /\ defense_type = "Trainer"
    /\ CalledAs("fit_generator", "defense")
    /\ ~CalledAs("fit_generator", "estimator")

\* the configuration errors of the scenario
ConfigurationErrors ==
    {"ValueError: skip_misclassified",
     "ValueError: audio_channel must have key delay",
     "ValueError: audio_channel must have key attenuation"}

IsIO(c) == c.op \in {"load_model", "load_dataset", "load_adversarial_dataset",
                     "Readrir"}

\* C18: every configuration error (skip_misclassified set; an audio_channel
\* configuration without 'delay' or without 'attenuation') is raised before
\* any I/O: load_model has not been called, and no dataset and no RIR file
\* has been read.
C18_ConfigurationErrorsBeforeIO ==
    raised \in ConfigurationErrors =>
        \A k \in 1..Len(calls) : ~IsIO(calls[k])

\* the attack object is loaded and its targeted property differs from the
\* targeted flag of the configuration
TargetedMismatch ==
    /\ attack \in {"targeted", "untargeted"}
    /\ targeted # (attack = "targeted")

\* C19: when the configured targeted flag differs from the targeted
\* property of the loaded attack, the mismatch is logged as a warning and
\* the run is not ended by an exception of the scenario: the attack phase
\* goes over all batches to the final results (only a failed file write of
\* the debugging to_wav may stop it), and the label targeter, the targeted
\* metric updates and the targeted log follow the configured flag, not the
\* property of the attack.
C19_TargetedMismatchIsAWarning ==
    TargetedMismatch =>
        /\ CalledAs("logger.warning", "targeted config != attack field")
        /\ pc \in {"attack_loop", "done", "raised"}
        /\ pc = "raised" => raised = "OSError: to_wav"
        /\ Called("load_label_targeter") <=> targeted
        /\ Called("label_targeter.generate") => targeted
        /\ \A k \in 1..Len(calls) :
              IsAdversarialUpdate(calls[k]) =>
                  (targeted <=>
                      (k < Len(calls) /\ IsTargetedUpdate(calls[k + 1])))
        /\ pc = "done" =>
              /\ results.adversarial = UpTo(num_eval_batches)
              /\ results.perturbation = UpTo(num_eval_batches)
              /\ results.targeted =
                    (IF targeted THEN UpTo(num_eval_batches) ELSE <<>>)
              /\ CalledAs("log_task", "targeted") <=> targeted

IsReadrir(c) == c.op = "Readrir"

IsApplyRir(c) == c.op = "create_speech_rir"

\* the room indices the mapping is checked for
RoomIndices == 0..MaxBatches

\* C20: Readrir(k) resolves to the impulse-response file of index k + 1001;
\* a run loads the RIR at most once, with room index 0 (file 1001), before
\* its first batch, and exactly once when it comes to its batches; that
\* RIR, unmodified, is the one applied to every benign batch and every
\* adversarial batch.
C20_OneFixedRir ==
    LET reads == SelectSeq(calls, IsReadrir)
    IN  /\ \A k \in RoomIndices : ReadrirIndex(k) = k + 1001
        /\ Len(reads) <= 1
        /\ \A k \in 1..Len(reads) : reads[k].v = 1001
        /\ rir \in {0, 1001}
        /\ (rir = 1001) => Len(reads) = 1
        /\ \A k \in 1..Len(calls) :
              /\ IsApplyRir(calls[k]) =>
                    /\ calls[k].v = 1001
                    /\ rir = 1001
                    /\ \E j \in 1..(k - 1) : IsReadrir(calls[j])
              /\ calls[k].i > 0 =>
                    \E j \in 1..(k - 1) : IsReadrir(calls[j])
              /\ calls[k].op = "predict" =>
                    /\ k > 2
                    /\ IsApplyRir(calls[k - 2])
                    /\ calls[k - 2].i = calls[k].i
                    /\ calls[k - 2].tag = calls[k].tag

\* C20 witness: the RIR of file 1001 was read once and applied to a benign
\* batch and to the most adversarial batches.
C20_Witness ==
    /\ pc = "attack_loop"
    /\ batch = MaxBatches
    /\ rir = 1001
    /\ Len(SelectSeq(calls, IsReadrir)) = 1
    /\ \E k \in 1..Len(calls) :
          IsApplyRir(calls[k]) /\ calls[k].tag = "benign" /\ calls[k].v = 1001
    /\ \E k \in 1..Len(calls) :
          /\ IsApplyRir(calls[k])
          /\ calls[k].tag = "adversarial"
          /\ calls[k].i = MaxBatches
          /\ calls[k].v = 1001

====
